---------------------------- MODULE Spec2Model ----------------------------
(***************************************************************************)
(* GPA Analyzer (src/main.py): one top-to-bottom run of the Streamlit      *)
(* script per user interaction.                                            *)
(*                                                                         *)
(* Numbers.  A GPA value is an integer number of thousandths (3.0 is 3000, *)
(* 0.3 is 300).  The doubles the script computes itself are placed on the  *)
(* same scale so that every comparison comes out as in IEEE arithmetic:    *)
(* the bin edge i*0.1 that rounds above the double nearest to i/10 is      *)
(* 100*i + 1.  A percentile is kept as an exact fraction num/den; a target *)
(* percentile is an integer number of tenths of a percent (90.0 is 900).   *)
(***************************************************************************)
EXTENDS Integers, Sequences, FiniteSets, TLC

VARIABLES pc, uploaded_file, sheet, df, numeric_columns, gpa_column,
          gpas, counts, user_gpa, percentile, kde, slider_gpa,
          slider_percentile, markers, target_percentile, gpa_needed,
          shown, stages, exception

vars == <<pc, uploaded_file, sheet, df, numeric_columns, gpa_column,
          gpas, counts, user_gpa, percentile, kde, slider_gpa,
          slider_percentile, markers, target_percentile, gpa_needed,
          shown, stages, exception>>

\* Longest column of a sheet.
MaxLen == 3

-----------------------------------------------------------------------------
(* Cells, columns, sheets, workbooks *)

Num(v) == [kind |-> "num", v |-> v]
NaN    == [kind |-> "nan", v |-> 0]
Text   == [kind |-> "str", v |-> 0]

\* Numeric cell values: -0.01, 0.0, 0.3, 3.0, 4.0, 4.01 and the missing cell.
NumberCells == {Num(-10), Num(0), Num(300), Num(3000), Num(4000), Num(4010), NaN}

SeqsUpTo(S, n) == UNION {[1..k -> S] : k \in 0..n}

NumberColumns == SeqsUpTo(NumberCells, MaxLen) \ {<<>>}
ShortNumberColumns == {<<c>> : c \in NumberCells}
TextColumns == {<<>>, <<Text>>, <<Text, Num(3000)>>}

Sheets ==
    {<<>>} \cup {<<t>> : t \in TextColumns}
           \cup {<<<<Text>>, c>> : c \in NumberColumns}
           \cup {<<c, d>> : c \in ShortNumberColumns, d \in ShortNumberColumns}

SmallSheets == {<<<<Text>>>>, <<<<Text>>, <<Num(3000), Num(300)>>>>}

Workbooks == {<<s>> : s \in Sheets} \cup {<<s, t>> : s \in SmallSheets, t \in SmallSheets}

NoFile == [present |-> FALSE, sheets |-> <<>>]
File(w) == [present |-> TRUE, sheets |-> w]

\* Values the widgets can deliver.
UserGpas == {0, 300, 3000, 4000}
SliderGpas == {300, 3000}
TargetPercentiles == {0, 333, 900, 1000}

-----------------------------------------------------------------------------
(* Values of the script's numeric variables *)

Unset == [kind |-> "none", num |-> 0, den |-> 1]
NaNValue == [kind |-> "nan", num |-> 0, den |-> 1]
Rat(n, d) == [kind |-> "num", num |-> n, den |-> d]

RECURSIVE SumSeq(_)
SumSeq(s) == IF s = <<>> THEN 0 ELSE Head(s) + SumSeq(Tail(s))

Min(S) == CHOOSE x \in S : \A y \in S : x <= y

-----------------------------------------------------------------------------
(* pandas: dtype inference, select_dtypes, to_numeric, dropna, the mask *)

\* xls.parse: a column with a text cell, or with no cell at all, is of dtype
\* object; a column of numbers and missing cells is float64.
dtype(col) ==
    IF col = <<>> \/ \E i \in DOMAIN col : col[i].kind = "str"
    THEN "object" ELSE "number"

\* Every column of the frame, whatever its dtype.
select_dtypes_any(frame) == [i \in DOMAIN frame |-> i]

\* df.select_dtypes(include='number').columns.tolist(), columns by position.
select_dtypes(frame) ==
    LET keep == {i \in DOMAIN frame : dtype(frame[i]) = "number"}
        F[i \in 0..Len(frame)] ==
            IF i = 0 THEN <<>>
            ELSE IF i \in keep THEN Append(F[i - 1], i) ELSE F[i - 1]
    IN F[Len(frame)]

\* pd.to_numeric(..., errors='coerce') of one element.
to_numeric(c) == IF c.kind = "num" THEN c ELSE NaN

\* Series.dropna()
dropna(col) == SelectSeq(col, LAMBDA c : c.kind # "nan")

\* The mask with the upper bound exclusive (gpas < 4).
InRangeMask_exclusive(c) == c.kind = "num" /\ c.v >= 0 /\ c.v < 4000

\* gpas[(gpas >= 0) & (gpas <= 4)]: a comparison with NaN is False.
InRangeMask(c) == c.kind = "num" /\ c.v >= 0 /\ c.v <= 4000

\* Lines 31-32 together; the sample is kept as the bare numbers.
FilterGpas(col) ==
    LET coerced == [i \in DOMAIN col |-> to_numeric(col[i])]
        kept == SelectSeq(dropna(coerced), InRangeMask)
    IN [i \in DOMAIN kept |-> kept[i].v]

-----------------------------------------------------------------------------
(* numpy: arange, histogram, percentile *)

\* The indices i at which the double i*0.1 lies above the double nearest i/10.
RoundedUp == {3, 6, 7, 12, 14, 17, 19, 23, 24, 28, 29, 33, 34, 38, 39}

\* np.arange(0, 4.0, 0.1): the stop value left out, 40 edges.
bins_without_stop == [i \in 1..40 |-> 100 * (i - 1) + (IF (i - 1) \in RoundedUp THEN 1 ELSE 0)]

\* np.arange(0, 4.1, 0.1): ceil(4.1/0.1) = 41 doubles, the i-th being i*0.1.
bins == [i \in 1..41 |-> 100 * (i - 1) + (IF (i - 1) \in RoundedUp THEN 1 ELSE 0)]

sort(a) == SortSeq(a, LAMBDA x, y : x < y)

\* ndarray.searchsorted on a sorted array: the insertion index (0-based).
searchsorted(sa, v, side) ==
    LET after == {i \in DOMAIN sa : IF side = "left" THEN sa[i] >= v ELSE sa[i] > v}
    IN IF after = {} THEN Len(sa) ELSE Min(after) - 1

\* The histogram with every bin half-open, the last one too.
np_histogram_half_open(a, edges) ==
    LET sa == sort(a)
        cum_n == [i \in DOMAIN edges |-> searchsorted(sa, edges[i], "left")]
    IN [i \in 1..(Len(edges) - 1) |-> cum_n[i + 1] - cum_n[i]]

\* np.histogram(a, bins=edges)[0] for an array of edges: sort, then the
\* differences of the insertion indices, the last edge searched from the right.
np_histogram(a, edges) ==
    LET sa == sort(a)
        cum_n == [i \in DOMAIN edges |->
                    IF i < Len(edges) THEN searchsorted(sa, edges[i], "left")
                    ELSE searchsorted(sa, edges[i], "right")]
    IN [i \in 1..(Len(edges) - 1) |-> cum_n[i + 1] - cum_n[i]]

\* np.percentile with method 'lower': the order statistic below, no lerp.
np_percentile_lower(a, q) ==
    LET arr == sort(a)
        previous == ((Len(arr) - 1) * q) \div 1000
    IN Rat(1000 * arr[previous + 1], 1000)

\* np.percentile(a, q), method 'linear', q in tenths of a percent, a non-empty:
\* the virtual index (n-1)*q/100, its two neighbours, and the lerp.
np_percentile(a, q) ==
    LET arr == sort(a)
        n == Len(arr)
        virtual == (n - 1) * q
        previous == virtual \div 1000
        next == IF previous + 1 > n - 1 THEN n - 1 ELSE previous + 1
        gamma == virtual - 1000 * previous
    IN Rat(1000 * arr[previous + 1] + (arr[next + 1] - arr[previous + 1]) * gamma, 1000)

-----------------------------------------------------------------------------
(* scipy: percentileofscore, gaussian_kde *)

\* percentileofscore with kind='mean': no extra half step on a tie.
percentileofscore_mean(a, score) ==
    LET n == Len(a)
        left == Cardinality({i \in DOMAIN a : a[i] < score})
        right == Cardinality({i \in DOMAIN a : a[i] <= score})
    IN IF n = 0 THEN NaNValue ELSE Rat((left + right) * 50, n)

\* The rank counted from the top: the comparisons turned around.
percentileofscore_above(a, score) ==
    LET n == Len(a)
        left == Cardinality({i \in DOMAIN a : a[i] > score})
        right == Cardinality({i \in DOMAIN a : a[i] >= score})
        plus1 == IF left < right THEN 1 ELSE 0
    IN IF n = 0 THEN NaNValue ELSE Rat((left + right + plus1) * 50, n)

\* percentileofscore(a, score), kind='rank' (the default).
percentileofscore(a, score) ==
    LET n == Len(a)
        left == Cardinality({i \in DOMAIN a : a[i] < score})
        right == Cardinality({i \in DOMAIN a : a[i] <= score})
        plus1 == IF left < right THEN 1 ELSE 0
    IN IF n = 0 THEN NaNValue ELSE Rat((left + right + plus1) * 50, n)

\* n*(n-1) times the sample covariance np.cov computes for the dataset.
Covariance(a) ==
    Len(a) * SumSeq([i \in DOMAIN a |-> a[i] * a[i]]) - SumSeq(a) * SumSeq(a)

\* gaussian_kde(dataset): what the constructor raises, or "none": a dataset of
\* fewer than two elements is refused, and a zero covariance cannot be
\* inverted.  (For the values and lengths used here the mean of identical
\* doubles is exact, so identical elements give a covariance of exactly zero.)
gaussian_kde(a) ==
    IF Len(a) <= 1 THEN "ValueError"
    ELSE IF Covariance(a) = 0 THEN "LinAlgError"
    ELSE "none"

-----------------------------------------------------------------------------
(* The script *)

\* The percentiles marked on the bell curve (line 100).
MarkerPercents == <<16, 50, 84>>

Init ==
    /\ pc = "start"
    /\ uploaded_file \in {NoFile} \cup {File(w) : w \in Workbooks}
    /\ sheet = 0
    /\ df = <<>>
    /\ numeric_columns = <<>>
    /\ gpa_column = 0
    /\ gpas = <<>>
    /\ counts = <<>>
    /\ user_gpa = 0
    /\ percentile = Unset
    /\ kde = "none"
    /\ slider_gpa = 3000
    /\ slider_percentile = Unset
    /\ markers = <<>>
    /\ target_percentile = 900
    /\ gpa_needed = Unset
    /\ shown = <<>>
    /\ stages = <<>>
    /\ exception = "none"

\* Lines 14-16: the uploader is drawn; without a file nothing else runs.
FileUploader ==
    /\ pc = "start"
    /\ shown' = Append(shown, "file_uploader")
    /\ pc' = IF uploaded_file.present THEN "sheet" ELSE "idle"
    /\ UNCHANGED <<uploaded_file, sheet, df, numeric_columns, gpa_column, gpas,
                   counts, user_gpa, percentile, kde, slider_gpa,
                   slider_percentile, markers, target_percentile, gpa_needed,
                   stages, exception>>

\* Lines 18-25: the sheet is chosen and parsed, its numeric columns listed.
ChooseSheet ==
    /\ pc = "sheet"
    /\ \E s \in DOMAIN uploaded_file.sheets :
        LET frame == uploaded_file.sheets[s]
            numeric == select_dtypes(frame)
        IN /\ sheet' = s
           /\ df' = frame
           /\ numeric_columns' = numeric
           /\ IF numeric = <<>>
              THEN /\ shown' = Append(shown, "warning: No numeric columns found!")
                   /\ pc' = "idle"
              ELSE /\ shown' = shown
                   /\ pc' = "column"
    /\ UNCHANGED <<uploaded_file, gpa_column, gpas, counts, user_gpa,
                   percentile, kde, slider_gpa, slider_percentile, markers,
                   target_percentile, gpa_needed, stages, exception>>

\* Lines 28-32: the GPA column is chosen, coerced and filtered to [0, 4].
ChooseColumn ==
    /\ pc = "column"
    /\ \E k \in DOMAIN numeric_columns :
        /\ gpa_column' = numeric_columns[k]
        /\ gpas' = FilterGpas(df[numeric_columns[k]])
    /\ stages' = Append(stages, "filter")
    /\ pc' = "histogram"
    /\ UNCHANGED <<uploaded_file, sheet, df, numeric_columns, counts, user_gpa,
                   percentile, kde, slider_gpa, slider_percentile, markers,
                   target_percentile, gpa_needed, shown, exception>>

\* Lines 36-52: the histogram over the 0.1 bins is computed and drawn.
Histogram ==
    /\ pc = "histogram"
    /\ counts' = np_histogram(gpas, bins)
    /\ shown' = Append(shown, "histogram")
    /\ stages' = Append(stages, "histogram")
    /\ pc' = "see_percentile"
    /\ UNCHANGED <<uploaded_file, sheet, df, numeric_columns, gpa_column, gpas,
                   user_gpa, percentile, kde, slider_gpa, slider_percentile,
                   markers, target_percentile, gpa_needed, exception>>

\* Lines 56-62: the number input; `if user_gpa:` skips the lookup for 0.0.
SeePercentile ==
    /\ pc = "see_percentile"
    /\ \E v \in UserGpas :
        /\ user_gpa' = v
        /\ IF v # 0
           THEN /\ percentile' = percentileofscore(gpas, v)
                /\ shown' = Append(shown, "success")
                /\ stages' = Append(stages, "forward")
           ELSE UNCHANGED <<percentile, shown, stages>>
    /\ pc' = "bell_curve"
    /\ UNCHANGED <<uploaded_file, sheet, df, numeric_columns, gpa_column, gpas,
                   counts, kde, slider_gpa, slider_percentile, markers,
                   target_percentile, gpa_needed, exception>>

\* Lines 66-121: the density fit, the slider's percentile, the three markers.
\* An exception of gaussian_kde is caught nowhere: the run ends there.  The
\* density values themselves (y_vals, y_slider, y_at_p) are real-valued sums of
\* exponentials and are not represented; kde records only that the fit exists.
BellCurve ==
    /\ pc = "bell_curve"
    /\ LET raised == gaussian_kde(gpas)
       IN IF raised # "none"
          THEN /\ exception' = raised
               /\ pc' = "crashed"
               /\ UNCHANGED <<kde, slider_gpa, slider_percentile, markers,
                              shown, stages>>
          ELSE /\ kde' = "fitted"
               /\ \E v \in SliderGpas :
                    /\ slider_gpa' = v
                    /\ slider_percentile' = percentileofscore(gpas, v)
               /\ markers' = [i \in DOMAIN MarkerPercents |->
                                np_percentile(gpas, 10 * MarkerPercents[i])]
               /\ shown' = Append(shown, "bell_curve")
               /\ stages' = Append(stages, "density")
               /\ pc' = "inverse"
               /\ UNCHANGED exception
    /\ UNCHANGED <<uploaded_file, sheet, df, numeric_columns, gpa_column, gpas,
                   counts, user_gpa, percentile, target_percentile, gpa_needed>>

\* Lines 125-131: the target percentile slider and the GPA it needs.
InverseQuery ==
    /\ pc = "inverse"
    /\ \E t \in TargetPercentiles :
        /\ target_percentile' = t
        /\ gpa_needed' = np_percentile(gpas, t)
    /\ shown' = Append(shown, "info")
    /\ stages' = Append(stages, "inverse")
    /\ pc' = "idle"
    /\ UNCHANGED <<uploaded_file, sheet, df, numeric_columns, gpa_column, gpas,
                   counts, user_gpa, percentile, kde, slider_gpa,
                   slider_percentile, markers, exception>>

\* A widget interaction: Streamlit runs the script again from the top,
\* with the same uploaded file.
Rerun ==
    /\ pc \in {"idle", "crashed"}
    /\ pc' = "start"
    /\ sheet' = 0
    /\ df' = <<>>
    /\ numeric_columns' = <<>>
    /\ gpa_column' = 0
    /\ gpas' = <<>>
    /\ counts' = <<>>
    /\ user_gpa' = 0
    /\ percentile' = Unset
    /\ kde' = "none"
    /\ slider_gpa' = 3000
    /\ slider_percentile' = Unset
    /\ markers' = <<>>
    /\ target_percentile' = 900
    /\ gpa_needed' = Unset
    /\ shown' = <<>>
    /\ stages' = <<>>
    /\ exception' = "none"
    /\ UNCHANGED uploaded_file

Next ==
    \/ FileUploader
    \/ ChooseSheet
    \/ ChooseColumn
    \/ Histogram
    \/ SeePercentile
    \/ BellCurve
    \/ InverseQuery
    \/ Rerun

Spec == Init /\ [][Next]_vars

-----------------------------------------------------------------------------
(* Properties *)

\* The raw column the sample was filtered from.
RawColumn == df[gpa_column]

\* The filter step has run.
Filtered == stages # <<>>

\* The positions of the raw column whose element is a number v, 0 <= v <= 4.
Accepted == {i \in DOMAIN RawColumn :
                RawColumn[i].kind = "num" /\ RawColumn[i].v \in 0..4000}

\* C1: the filtered sample is the subsequence of the raw column, in the
\* original order, of exactly the elements that are numbers in [0, 4]; missing
\* and out-of-range elements are dropped and the step raises nothing.
C1_FilterKeepsInRangeInOrder ==
    Filtered =>
        /\ Len(gpas) = Cardinality(Accepted)
        /\ \A i \in Accepted :
             gpas[Cardinality({j \in Accepted : j <= i})] = RawColumn[i].v
        /\ (pc = "histogram" => exception = "none")

C1_Witness ==
    /\ Filtered
    /\ \E i \in DOMAIN RawColumn : RawColumn[i].kind = "nan"
    /\ \E i \in DOMAIN RawColumn : RawColumn[i] = Num(4010)
    /\ gpas = <<4000>>

\* x lies in bin i of the edges: [edges[i], edges[i+1]), the last bin closed.
InBin(edges, i, x) ==
    /\ edges[i] <= x
    /\ \/ x < edges[i + 1]
       \/ (i = Len(edges) - 1 /\ x = edges[i + 1])

\* C2: over the 40 bins with edges 0.00, 0.10, ..., 4.00 every element of the
\* sample lies in exactly one bin and the counts sum to the sample's length.
C2_HistogramCountsSumToLen ==
    counts # <<>> =>
        /\ Len(counts) = 40
        /\ bins[1] = 0 /\ bins[Len(bins)] = 4000
        /\ \A k \in DOMAIN gpas :
             Cardinality({i \in 1..40 : InBin(bins, i, gpas[k])}) = 1
        /\ SumSeq(counts) = Len(gpas)

C2_Witness ==
    /\ counts # <<>>
    /\ \E k \in DOMAIN gpas : gpas[k] = 0
    /\ \E k \in DOMAIN gpas : gpas[k] = 4000

\* C3: histogram(sample, edges) has len(edges)-1 counts, count i being the
\* number of elements in [edges[i], edges[i+1]), the last bin closed on both
\* ends; edges [0,1,2,3,4] over [0.5,1.5,1.5,3.9] give [1,2,0,1].
C3_HistogramBinSemantics ==
    counts # <<>> =>
        /\ Len(counts) = Len(bins) - 1
        /\ \A i \in DOMAIN counts :
             counts[i] = Cardinality({k \in DOMAIN gpas : InBin(bins, i, gpas[k])})
        /\ np_histogram(<<500, 1500, 1500, 3900>>, <<0, 1000, 2000, 3000, 4000>>)
             = <<1, 2, 0, 1>>

C3_Witness ==
    /\ counts # <<>>
    /\ counts[Len(counts)] >= 2
    /\ counts[3] >= 1

Less(S, x) == Cardinality({i \in DOMAIN S : S[i] < x})
Equal(S, x) == Cardinality({i \in DOMAIN S : S[i] = x})

\* p = 100 * (count_less + 0.5 * count_equal) / n, as exact fractions.
IsMeanRank(S, x, p) ==
    2 * Len(S) * p.num = 100 * (2 * Less(S, x) + Equal(S, x)) * p.den

\* p = 100 * (count_less + 0.5 * count_equal + 0.5 if x is in S) / n.
IsTieRank(S, x, p) ==
    2 * Len(S) * p.num =
        100 * (2 * Less(S, x) + Equal(S, x) + (IF Equal(S, x) > 0 THEN 1 ELSE 0)) * p.den

\* C4 as stated: both forward lookups of a run give
\* 100 * (count_less + 0.5 * count_equal) / n.
C4_ForwardIsMeanRank ==
    /\ percentile.kind = "num" => IsMeanRank(gpas, user_gpa, percentile)
    /\ slider_percentile.kind = "num" => IsMeanRank(gpas, slider_gpa, slider_percentile)

\* C4 amended: both forward lookups of a run give
\* 100 * (count_less + 0.5 * count_equal + h) / n, where h is 0.5 when the
\* value occurs in the sample and 0 when it does not.
C4_ForwardIsTieRank ==
    /\ percentile.kind = "num" => IsTieRank(gpas, user_gpa, percentile)
    /\ slider_percentile.kind = "num" => IsTieRank(gpas, slider_gpa, slider_percentile)

C4_Witness ==
    /\ percentile.kind = "num"
    /\ Len(gpas) = 3
    /\ Less(gpas, user_gpa) = 1
    /\ Equal(gpas, user_gpa) = 2

\* p1 <= p2 for two fractions with positive denominators.
RatLeq(p1, p2) == p1.num * p2.den <= p2.num * p1.den

\* Values a forward lookup can be asked about, sample values and others.
QueryValues == UserGpas \cup SliderGpas \cup {150, 301, 3500}

\* C5: for a fixed non-empty sample the forward percentile is monotonic
\* non-decreasing in the value, ties included; in particular the two lookups
\* of one run are ordered as their values are.
C5_ForwardMonotonic ==
    (Filtered /\ gpas # <<>>) =>
        /\ \A x1, x2 \in QueryValues :
             x1 <= x2 => RatLeq(percentileofscore(gpas, x1), percentileofscore(gpas, x2))
        /\ (percentile.kind = "num" /\ slider_percentile.kind = "num") =>
             /\ user_gpa <= slider_gpa => RatLeq(percentile, slider_percentile)
             /\ slider_gpa <= user_gpa => RatLeq(slider_percentile, percentile)

C5_Witness ==
    /\ percentile.kind = "num"
    /\ slider_percentile.kind = "num"
    /\ user_gpa < slider_gpa
    /\ Equal(gpas, user_gpa) = 2
    /\ Equal(gpas, slider_gpa) = 1
    /\ ~RatLeq(slider_percentile, percentile)

\* The k-th smallest element of S (k from 0), found by counting.
OrderStat(S, k) ==
    CHOOSE v \in {S[i] : i \in DOMAIN S} : Less(S, v) <= k /\ k < Less(S, v) + Equal(S, v)

\* r is the linear interpolation between the two order statistics of S
\* adjacent to the fractional rank (q/1000)*(n-1), and lies in [0, 4].
IsInterpolation(S, q, r) ==
    LET n == Len(S)
        k == ((n - 1) * q) \div 1000
        f == ((n - 1) * q) % 1000
        lo == OrderStat(S, k)
        hi == OrderStat(S, IF k + 1 > n - 1 THEN n - 1 ELSE k + 1)
    IN /\ r.kind = "num"
       /\ r.den = 1000
       /\ r.num = 1000 * lo + f * (hi - lo)
       /\ 0 <= r.num /\ r.num <= 4000 * r.den

PercentileGrid == TargetPercentiles \cup {10 * MarkerPercents[i] : i \in DOMAIN MarkerPercents}

\* C6: for a non-empty sample in [0,4] and a target p in [0,100] the inverse
\* percentile is the linear interpolation between the adjacent order statistics
\* at rank (p/100)*(n-1): the minimum at 0, the maximum at 100, non-decreasing
\* in p and within [0,4]; so are the value shown and the three markers.
C6_InverseIsLinearInterpolation ==
    (Filtered /\ gpas # <<>>) =>
        /\ \A q \in PercentileGrid : IsInterpolation(gpas, q, np_percentile(gpas, q))
        /\ \A i \in DOMAIN gpas :
             /\ np_percentile(gpas, 0).num <= 1000 * gpas[i]
             /\ 1000 * gpas[i] <= np_percentile(gpas, 1000).num
        /\ \E i \in DOMAIN gpas : np_percentile(gpas, 0) = Rat(1000 * gpas[i], 1000)
        /\ \E i \in DOMAIN gpas : np_percentile(gpas, 1000) = Rat(1000 * gpas[i], 1000)
        /\ \A q1, q2 \in PercentileGrid :
             q1 <= q2 => np_percentile(gpas, q1).num <= np_percentile(gpas, q2).num
        /\ gpa_needed.kind = "num" => IsInterpolation(gpas, target_percentile, gpa_needed)
        /\ \A i \in DOMAIN markers :
             IsInterpolation(gpas, 10 * MarkerPercents[i], markers[i])

C6_Witness ==
    /\ gpa_needed.kind = "num"
    /\ target_percentile = 333
    /\ Len(gpas) = 3
    /\ \A i \in DOMAIN gpas : gpa_needed.num # gpa_needed.den * gpas[i]

Range(s) == {s[i] : i \in DOMAIN s}

\* C7 as stated: with an empty filtered sample no downstream stage yields an
\* output, a NaN or an unhandled exception.
C7_EmptySampleFailsWithDataError ==
    (Filtered /\ gpas = <<>>) =>
        /\ "histogram" \notin Range(shown)
        /\ percentile.kind # "nan"
        /\ exception = "none"

\* C8 as stated: a sample whose elements are all identical does not end the
\* run in an unhandled exception of the density step.
C8_DegenerateSampleDoesNotCrash ==
    (Filtered /\ gpas # <<>> /\ \A i, j \in DOMAIN gpas : gpas[i] = gpas[j]) =>
        /\ exception = "none"
        /\ pc # "crashed"

\* The number input has been read in this run.
LookupPassed == pc \in {"bell_curve", "inverse", "crashed"} \/ (pc = "idle" /\ Filtered)

\* C9 as stated: for a non-empty sample every entered value in [0,4], 0.0
\* included, gets a forward percentile, a number in [0,100].
C9_LookupYieldsPercentile ==
    (LookupPassed /\ gpas # <<>>) =>
        /\ percentile.kind = "num"
        /\ 0 <= percentile.num /\ percentile.num <= 100 * percentile.den

Warning == "warning: No numeric columns found!"

\* The parsed sheet has a column of numbers (missing cells allowed).
NumericInSheet ==
    \E i \in DOMAIN df : df[i] # <<>> /\ \A j \in DOMAIN df[i] : df[i][j].kind # "str"

\* C10: the stages run only with a file uploaded and a numeric column in the
\* chosen sheet; a sheet without one gets the warning and no stage; without a
\* file nothing but the uploader is shown.
C10_StagesNeedFileAndNumericColumn ==
    /\ stages # <<>> =>
         /\ uploaded_file.present
         /\ df = uploaded_file.sheets[sheet]
         /\ NumericInSheet
         /\ \A j \in DOMAIN df[gpa_column] : df[gpa_column][j].kind # "str"
    /\ Warning \in Range(shown) => (~NumericInSheet /\ stages = <<>>)
    /\ (pc = "idle" /\ uploaded_file.present /\ ~NumericInSheet) =>
         (shown = <<"file_uploader", Warning>> /\ stages = <<>>)
    /\ ~uploaded_file.present =>
         (stages = <<>> /\ shown \in {<<>>, <<"file_uploader">>} /\ pc \in {"start", "idle"})

C10_Witness ==
    /\ pc = "idle"
    /\ df = <<<<Text>>>>
    /\ Warning \in Range(shown)

=============================================================================
